---- MODULE Spec2Model ----
(***************************************************************************)
(* Persistence layer of the NCO semantic search backend:                   *)
(*   app/database/connection.py  DatabaseManager (codecs, statements)      *)
(*   app/database/schema.py      create_tables                             *)
(*   app/database/crud.py        OccupationCRUD, SearchQueryCRUD           *)
(*                                                                         *)
(* Conventions.  A Python Optional / an SQL nullable column is a sequence  *)
(* of length at most one: None == << >>, Some(x) == <<x>>.  Text whose     *)
(* order matters (codes, timestamps) is a sequence of character codes,     *)
(* compared as SQLite's BINARY collation compares it.  A float32 is its    *)
(* IEEE-754 bit pattern; bytes are numbers 0..255.                         *)
(***************************************************************************)
EXTENDS Integers, Sequences, FiniteSets, TLC

\* ------------------------------------------------------------------ bounds
\* Number of occupation codes in play.
NumCodes == 2
\* Scaled-down embedding length (vector_dimension, 768 in the program).
VectorDim == 2
\* The wall clock counts half seconds from 0 and stops here.
MaxClock == 2
\* Longest list handed to bulk_create.
MaxBatch == 2
\* Number of query ids in play.
NumQueries == 2
\* Number of DatabaseManager calls followed.
MaxConnections == 3
\* Longest vector and longest list handed to a codec.
MaxCodecLen == 2
\* Number of threads calling at the same time.
NumThreads == 2
\* Number of DatabaseManager objects that may get built.
MaxManagers == 3

\* ----------------------------------------------------------------- options
None == << >>
Some(x) == <<x>>
IsNone(v) == v = << >>
Get(v) == v[1]

\* ------------------------------------------------------------------- text
\* memcmp order of two texts (SQLite BINARY collation): the first differing
\* character decides, and a proper prefix sorts first.
RECURSIVE TextLess(_, _)
TextLess(a, b) ==
    IF b = << >> THEN FALSE
    ELSE IF a = << >> THEN TRUE
    ELSE IF a[1] # b[1] THEN a[1] < b[1]
    ELSE TextLess(Tail(a), Tail(b))

TextLeq(a, b) == a = b \/ TextLess(a, b)

\* ---------------------------------------------------------- Python values
\* A JSON-able Python value: None, a list of strings, or a dict from strings
\* to lists of strings (entries kept in insertion order, as dict keeps them).
PyNone == [t |-> "none", v |-> << >>]
PyList(items) == [t |-> "list", v |-> items]
PyDict(entries) == [t |-> "dict", v |-> entries]
\* bool(value): None and empty containers are falsy.
Truthy(d) == d.t # "none" /\ Len(d.v) > 0
\* The Python expression "a or b".
PyOr(a, b) == IF Truthy(a) THEN a ELSE b

\* --------------------------------------------------------- embedding codec
\* The 4 bytes of a float32 cut to the precision of a float16-sized mantissa:
\* the low byte is lost.
F32BytesLowPrecision(f) ==
    << 0, (f \div 256) % 256, (f \div 65536) % 256, (f \div 16777216) % 256 >>

\* numpy float32 -> its 4 bytes, little-endian (ndarray.tobytes).
F32Bytes(f) ==
    << f % 256, (f \div 256) % 256, (f \div 65536) % 256, (f \div 16777216) % 256 >>

RECURSIVE tobytes(_)
tobytes(arr) ==
    IF arr = << >> THEN << >> ELSE F32Bytes(Head(arr)) \o tobytes(Tail(arr))

\* A reader that stops one float before the end of the buffer.
frombuffer_short(bytes) ==
    [i \in 1..((Len(bytes) \div 4) - 1) |->
        bytes[4*i - 3] + 256 * bytes[4*i - 2] + 65536 * bytes[4*i - 1]
            + 16777216 * bytes[4*i]]

\* np.frombuffer(bytes, dtype=np.float32): every 4 bytes make one float.
frombuffer(bytes) ==
    [i \in 1..(Len(bytes) \div 4) |->
        bytes[4*i - 3] + 256 * bytes[4*i - 2] + 65536 * bytes[4*i - 1]
            + 16777216 * bytes[4*i]]

serialize_embedding(embedding) ==
    IF IsNone(embedding) THEN None ELSE Some(tobytes(Get(embedding)))

deserialize_embedding(embedding_bytes) ==
    IF IsNone(embedding_bytes) THEN None ELSE Some(frombuffer(Get(embedding_bytes)))

\* -------------------------------------------------------------- JSON codec
\* JSON text is a sequence of tokens: punctuation <<"p", c>> and string
\* literals <<"s", text>>.
LB == <<"p", "[">>
RB == <<"p", "]">>
LC == <<"p", "{">>
RC == <<"p", "}">>
COMMA == <<"p", ",">>
COLON == <<"p", ":">>
Str(s) == <<"s", s>>

RECURSIVE JoinItems(_)
JoinItems(items) ==
    IF items = << >> THEN << >>
    ELSE IF Len(items) = 1 THEN << Str(items[1]) >>
    ELSE << Str(Head(items)), COMMA >> \o JoinItems(Tail(items))

dumps_list(items) == <<LB>> \o JoinItems(items) \o <<RB>>

RECURSIVE JoinEntries(_)
JoinEntries(entries) ==
    IF entries = << >> THEN << >>
    ELSE LET e == Head(entries)
             one == << Str(e[1]), COLON >> \o dumps_list(e[2].v)
         IN  IF Len(entries) = 1 THEN one
             ELSE one \o <<COMMA>> \o JoinEntries(Tail(entries))

dumps_dict(entries) == <<LC>> \o JoinEntries(entries) \o <<RC>>

\* json.dumps(data, ensure_ascii=False)
json_dumps(data) ==
    IF data.t = "list" THEN dumps_list(data.v) ELSE dumps_dict(data.v)

\* Items of a JSON array from position i on; next is the position after "]".
RECURSIVE ParseItems(_, _, _)
ParseItems(toks, i, acc) ==
    IF toks[i] = RB THEN [v |-> acc, next |-> i + 1]
    ELSE IF toks[i] = COMMA THEN ParseItems(toks, i + 1, acc)
    ELSE ParseItems(toks, i + 1, Append(acc, toks[i][2]))

\* Entries of a JSON object from position i on.
RECURSIVE ParseEntries(_, _, _)
ParseEntries(toks, i, acc) ==
    IF toks[i] = RC THEN acc
    ELSE IF toks[i] = COMMA THEN ParseEntries(toks, i + 1, acc)
    ELSE LET lst == ParseItems(toks, i + 3, << >>)
         IN  ParseEntries(toks, lst.next,
                          Append(acc, << toks[i][2], PyList(lst.v) >>))

\* json.loads(text)
json_loads(toks) ==
    IF toks[1] = LB THEN PyList(ParseItems(toks, 2, << >>).v)
    ELSE PyDict(ParseEntries(toks, 2, << >>))

serialize_json(data) ==
    IF data = PyNone THEN None ELSE Some(json_dumps(data))

deserialize_json(json_str) ==
    IF IsNone(json_str) THEN PyNone ELSE json_loads(Get(json_str))

\* ------------------------------------------------------------- timestamps
\* A datetime is [s |-> whole seconds, us |-> fraction of the second].
\* sqlite3's datetime adapter stores datetime.isoformat(" "), which leaves
\* the fraction out when it is zero.
adapt_datetime(dt) == IF dt.us = 0 THEN << dt.s >> ELSE << dt.s, dt.us >>

\* datetime.fromisoformat(text)
fromisoformat(text) ==
    [s |-> text[1], us |-> IF Len(text) = 1 THEN 0 ELSE text[2]]

\* Chronological order of two datetimes.
DatetimeLeq(a, b) == a.s < b.s \/ (a.s = b.s /\ a.us <= b.us)

\* datetime.now() when the clock reads k half seconds.
DatetimeNow(k) == [s |-> k \div 2, us |-> (k % 2) * 5]

\* SQLite's CURRENT_TIMESTAMP: whole seconds only.
CURRENT_TIMESTAMP(k) == << k \div 2 >>

\* ---------------------------------------------------------------- domains
\* Occupation codes, as digit texts.
CodePool == << <<2, 0>>, <<1, 1>>, <<1, 0>>, <<2, 1>> >>
Codes == { CodePool[i] : i \in 1..NumCodes }

\* Two float32 values by bit pattern: 1.0 and 0.1.
Float32Pool == << 1065353216, 1036831949 >>
EmbeddingA == [i \in 1..VectorDim |-> Float32Pool[1 + (i % 2)]]
EmbeddingB == [i \in 1..VectorDim |-> Float32Pool[2 - (i % 2)]]
Embeddings == { None, Some(EmbeddingA), Some(EmbeddingB) }

\* What a caller fills in besides code and embedding.  The timestamps are the
\* caller's datetime values: created_at with a fraction of a second,
\* updated_at without.  The last profile has no title, which the occupations
\* table refuses (NOT NULL).
ProfileDev ==
    [title |-> Some(<<"d", "e", "v">>), description |-> Some(<<"a", "d", "e", "v">>),
     division |-> "1", major_group |-> "12", sub_major_group |-> "123",
     minor_group |-> "1234", unit_group |-> "12345",
     keywords |-> PyList(<<"k1", "k2">>),
     synonyms |-> PyDict(<< <<"en", PyList(<<"s1">>)>>,
                            <<"hi", PyList(<<"s2", "s3">>)>> >>),
     created_at |-> Some([s |-> 0, us |-> 5]),
     updated_at |-> Some([s |-> 0, us |-> 0])]
ProfileOps ==
    [title |-> Some(<<"o", "p", "s">>), description |-> None,
     division |-> "1", major_group |-> "12", sub_major_group |-> "124",
     minor_group |-> "1245", unit_group |-> "12456",
     keywords |-> PyList(<< >>),
     synonyms |-> PyDict(<< >>),
     created_at |-> Some([s |-> 0, us |-> 5]),
     updated_at |-> Some([s |-> 0, us |-> 0])]
ProfileUntitled == [ProfileOps EXCEPT !.title = None]

\* Occupation(code=c, ..., embedding=e)
Occupation(c, p, e) ==
    [code |-> c, title |-> p.title, description |-> p.description,
     division |-> p.division, major_group |-> p.major_group,
     sub_major_group |-> p.sub_major_group, minor_group |-> p.minor_group,
     unit_group |-> p.unit_group, keywords |-> p.keywords,
     synonyms |-> p.synonyms, embedding |-> e,
     created_at |-> p.created_at, updated_at |-> p.updated_at]

\* The occupations callers hand to create and update: one profile with
\* every embedding, the others without one.
OccupationInputs ==
    { Occupation(c, ProfileDev, e) : c \in Codes, e \in Embeddings }
        \cup { Occupation(c, p, None) : c \in Codes, p \in { ProfileOps, ProfileUntitled } }

\* A smaller choice of them, for the runs in which the environment changes.
EnvInputs ==
    { Occupation(c, ProfileDev, e) : c \in Codes, e \in { None, Some(EmbeddingA) } }

\* Row ids of the native vector table (a scaled-down 0 .. 2^31 - 1).
RowIds == {0, 1}

\* hash(code) % 2**31 of the first process: either every code falls on one
\* row id, or neighbouring codes fall on different ones.
CodeIndex(c) == CHOOSE i \in 1..NumCodes : CodePool[i] = c
InitialHashes == { [c \in Codes |-> 0], [c \in Codes |-> CodeIndex(c) % 2] }

\* ------------------------------------------------------------------ state
VARIABLES
    clock,                        \* wall clock, in half seconds
    vss,                          \* whether load_extension("vss0") succeeds
    pyhash,                       \* hash(code) % 2**31 of the running process
    schema,                       \* names of the tables that exist
    occupations,                  \* code -> row of table occupations
    occupation_vectors,           \* rowid -> entry of the native vector table
    occupation_vectors_fallback,  \* code -> row of the fallback vector table
    search_queries,               \* query_id -> row of table search_queries
    last,                         \* the last repository call and what it returned
    connections,                  \* the connections DatabaseManager calls opened, oldest first
    user_sessions,                \* session_id -> row of table user_sessions
    codec,                        \* the last value handed to a codec and what came back
    threads,                      \* thread -> where it is in the call it is running
    manager                       \* the module-level _db_manager and what was built

vars == << clock, vss, pyhash, schema, occupations, occupation_vectors,
           occupation_vectors_fallback, search_queries, last, connections,
           user_sessions, codec, threads, manager >>

QueryIds == 1..NumQueries

SessionIds == { "s1", "s2" }

\* No codec call yet.
NoCodec == [op |-> "none", value |-> None, encoded |-> None, decoded |-> None]

\* Threads running repository calls side by side.
Threads == 1..NumThreads

\* A thread between calls.
Idle == [pc |-> "idle", arg |-> None, got |-> None]

\* connection.py's globals at import: _db_manager = None, nothing built or
\* handed out yet.
NoManager == [current |-> None, built |-> 0, constructed |-> {}, handed |-> {}]

CoreTables == { "occupations", "search_queries", "user_sessions" }

Called(op, code, ret, n) == [op |-> op, code |-> code, ret |-> ret, n |-> n]

Init ==
    /\ clock = 0
    /\ vss \in BOOLEAN
    /\ pyhash \in IF vss THEN InitialHashes ELSE { [c \in Codes |-> 0] }
    /\ schema = {}
    /\ occupations = [c \in Codes |-> None]
    /\ occupation_vectors = [r \in RowIds |-> None]
    /\ occupation_vectors_fallback = [c \in Codes |-> None]
    /\ search_queries = [q \in QueryIds |-> None]
    /\ last = Called("none", None, FALSE, 0)
    /\ connections = << >>
    /\ user_sessions = [sid \in SessionIds |-> None]
    /\ codec = NoCodec
    /\ threads = [t \in Threads |-> Idle]
    /\ manager = NoManager

\* ------------------------------------------------------------ environment
\* Time passes.
Tick ==
    /\ clock < MaxClock
    /\ clock' = clock + 1
    /\ UNCHANGED << threads, manager,
                    connections, user_sessions, codec, vss, pyhash, schema, occupations,
                    occupation_vectors, occupation_vectors_fallback, search_queries,
                    last >>

\* The sqlite-vss extension gets installed: from now on load_extension
\* succeeds on every new connection.
InstallExtension ==
    /\ ~vss
    /\ vss' = TRUE
    /\ UNCHANGED << threads, manager, connections, user_sessions, codec,
                    clock, pyhash, schema, occupations,
                    occupation_vectors, occupation_vectors_fallback, search_queries,
                    last >>

\* The process is restarted over the same database file: str hashes are
\* salted per process, so hash(code) changes.  Only the native vector helpers
\* read hash(code), so a restart is observable only once their table exists.
Restart ==
    /\ "occupation_vectors" \in schema
    /\ \E h \in [Codes -> RowIds] : h # pyhash /\ pyhash' = h
    /\ UNCHANGED << threads, manager,
                    connections, user_sessions, codec, clock, vss, schema, occupations,
                    occupation_vectors, occupation_vectors_fallback, search_queries,
                    last >>

\* ----------------------------------------------------------------- schema
\* create_tables: the three main tables, then the native vector table, and
\* the fallback vector table only when creating the native one raised.
\* CREATE VIRTUAL TABLE IF NOT EXISTS raises "no such module" when the table
\* does not exist and the extension is not loaded.
create_tables_schema(sch, ext) ==
    LET main == sch \cup CoreTables
    IN  IF ext \/ "occupation_vectors" \in main
        THEN main \cup { "occupation_vectors" }
        ELSE main \cup { "occupation_vectors_fallback" }

CreateTables ==
    /\ schema' = create_tables_schema(schema, vss)
    /\ last' = Called("create_tables", None, TRUE, 0)
    /\ UNCHANGED << threads, manager, connections, user_sessions, codec,
                    clock, vss, pyhash, occupations, occupation_vectors,
                    occupation_vectors_fallback, search_queries >>

\* A drop that does not look at confirm.
drop_tables_unconfirmed(sch, confirm) == {}

\* The tables left by drop_tables: all as they were without confirm, else
\* none of the five (DROP TABLE IF EXISTS for each).
drop_tables_schema(sch, confirm) ==
    IF ~confirm THEN sch
    ELSE sch \ (CoreTables \cup { "occupation_vectors", "occupation_vectors_fallback" })

\* drop_tables(confirm): without confirm it returns False at once; with it the
\* tables go, and their rows with them.
DropTables(confirm) ==
    /\ schema' = drop_tables_schema(schema, confirm)
    /\ last' = Called("drop_tables", None, confirm, 0)
    /\ IF confirm
       THEN /\ occupations' = [c \in Codes |-> None]
            /\ occupation_vectors' = [r \in RowIds |-> None]
            /\ occupation_vectors_fallback' = [c \in Codes |-> None]
            /\ search_queries' = [q \in QueryIds |-> None]
            /\ user_sessions' = [sid \in SessionIds |-> None]
       ELSE UNCHANGED << occupations, occupation_vectors, occupation_vectors_fallback,
                         search_queries, user_sessions >>
    /\ UNCHANGED << threads, manager, connections, codec, clock, vss, pyhash >>

\* ------------------------------------------------- occupation repository
\* The sqlite3 adapter applied to an optional datetime parameter.
adapt_param(dt) == IF IsNone(dt) THEN None ELSE Some(adapt_datetime(Get(dt)))

\* Python truth value of an optional bytes / text value ("if embedding_bytes:").
NonEmpty(b) == ~IsNone(b) /\ Len(Get(b)) > 0

\* The parameter tuple of create's INSERT, by column.
create_params(occupation) ==
    [code |-> occupation.code,
     title |-> occupation.title,
     description |-> occupation.description,
     division |-> occupation.division,
     major_group |-> occupation.major_group,
     sub_major_group |-> occupation.sub_major_group,
     minor_group |-> occupation.minor_group,
     unit_group |-> occupation.unit_group,
     keywords |-> serialize_json(occupation.keywords),
     synonyms |-> serialize_json(occupation.synonyms),
     embedding |-> serialize_embedding(occupation.embedding),
     created_at |-> adapt_param(occupation.created_at),
     updated_at |-> adapt_param(occupation.updated_at)]

\* An occupations table without PRIMARY KEY on code: a second row for a
\* stored code would be accepted.
InsertRaisesNoPrimaryKey(sch, occ, params) ==
    \/ "occupations" \notin sch
    \/ IsNone(params.title)

\* INSERT INTO occupations raises unless the table exists, the primary key
\* is new and the NOT NULL columns are filled.
InsertRaises(sch, occ, params) ==
    \/ "occupations" \notin sch
    \/ ~IsNone(occ[params.code])
    \/ IsNone(params.title)

is_vss_available(sch) == "occupation_vectors" \in sch
is_fallback_vector_available(sch) == "occupation_vectors_fallback" \in sch

\* _insert_vector: INSERT INTO occupation_vectors(rowid, embedding) with
\* rowid = hash(code) % 2**31.  The statement raises (and the helper only
\* logs) when the rowid is taken or the vector has not the declared width.
\* An entry remembers the code it was written for.
insert_vector(vec, h, code, embedding) ==
    IF IsNone(vec[h[code]]) /\ Len(embedding) = VectorDim
    THEN [vec EXCEPT ![h[code]] = Some([embedding |-> embedding, code |-> code])]
    ELSE vec

\* _delete_vector: DELETE FROM occupation_vectors WHERE rowid = hash(code) % 2**31
delete_vector(vec, h, code) == [vec EXCEPT ![h[code]] = None]

\* _update_vector: delete, then insert.
update_vector(vec, h, code, embedding) ==
    insert_vector(delete_vector(vec, h, code), h, code, embedding)

\* _insert_fallback_vector: INSERT OR REPLACE; the foreign key wants the
\* occupation row to exist.
insert_fallback_vector(fb, occ, code, embedding) ==
    IF ~IsNone(occ[code])
    THEN [fb EXCEPT ![code] = serialize_embedding(Some(embedding))]
    ELSE fb

\* _update_fallback_vector: UPDATE ... WHERE occupation_code = ?
update_fallback_vector(fb, code, embedding) ==
    IF ~IsNone(fb[code])
    THEN [fb EXCEPT ![code] = serialize_embedding(Some(embedding))]
    ELSE fb

\* _delete_fallback_vector
delete_fallback_vector(fb, code) == [fb EXCEPT ![code] = None]

\* OccupationCRUD.create
Create(occupation) ==
    LET params == create_params(occupation)
        code == occupation.code
        inserted == [occupations EXCEPT ![code] = Some(params)]
    IN  IF InsertRaises(schema, occupations, params)
        THEN /\ last' = Called("create", Some(code), FALSE, 0)
             /\ UNCHANGED << threads, manager, connections, user_sessions, codec,
                             clock, vss, pyhash, schema, occupations,
                             occupation_vectors, occupation_vectors_fallback,
                             search_queries >>
        ELSE /\ occupations' = inserted
             /\ occupation_vectors' =
                    IF NonEmpty(params.embedding) /\ is_vss_available(schema)
                    THEN insert_vector(occupation_vectors, pyhash, code,
                                       Get(occupation.embedding))
                    ELSE occupation_vectors
             /\ occupation_vectors_fallback' =
                    IF /\ NonEmpty(params.embedding)
                       /\ ~is_vss_available(schema)
                       /\ is_fallback_vector_available(schema)
                    THEN insert_fallback_vector(occupation_vectors_fallback, inserted,
                                                code, Get(occupation.embedding))
                    ELSE occupation_vectors_fallback
             /\ last' = Called("create", Some(code), TRUE, 0)
             /\ UNCHANGED << threads, manager, connections, user_sessions, codec,
                             clock, vss, pyhash, schema, search_queries >>

\* _row_to_occupation
row_to_occupation(row) ==
    [code |-> row.code,
     title |-> row.title,
     description |-> row.description,
     division |-> row.division,
     major_group |-> row.major_group,
     sub_major_group |-> row.sub_major_group,
     minor_group |-> row.minor_group,
     unit_group |-> row.unit_group,
     keywords |-> PyOr(deserialize_json(row.keywords), PyList(<< >>)),
     synonyms |-> PyOr(deserialize_json(row.synonyms), PyDict(<< >>)),
     embedding |-> deserialize_embedding(row.embedding),
     created_at |-> IF NonEmpty(row.created_at)
                    THEN Some(fromisoformat(Get(row.created_at))) ELSE None,
     updated_at |-> IF NonEmpty(row.updated_at)
                    THEN Some(fromisoformat(Get(row.updated_at))) ELSE None]

\* OccupationCRUD.get_by_code: None when the query raises or finds nothing.
get_by_code(code) ==
    IF "occupations" \notin schema \/ IsNone(occupations[code])
    THEN None
    ELSE Some(row_to_occupation(Get(occupations[code])))

\* A SET list that leaves the embedding column out.
update_row_without_embedding(row, occupation, now) ==
    [row EXCEPT
        !.title = occupation.title,
        !.description = occupation.description,
        !.division = occupation.division,
        !.major_group = occupation.major_group,
        !.sub_major_group = occupation.sub_major_group,
        !.minor_group = occupation.minor_group,
        !.unit_group = occupation.unit_group,
        !.keywords = serialize_json(occupation.keywords),
        !.synonyms = serialize_json(occupation.synonyms),
        !.updated_at = Some(adapt_datetime(now))]

\* The SET list of update's UPDATE applied to a stored row; code and
\* created_at are not in it.
update_row(row, occupation, now) ==
    [row EXCEPT
        !.title = occupation.title,
        !.description = occupation.description,
        !.division = occupation.division,
        !.major_group = occupation.major_group,
        !.sub_major_group = occupation.sub_major_group,
        !.minor_group = occupation.minor_group,
        !.unit_group = occupation.unit_group,
        !.keywords = serialize_json(occupation.keywords),
        !.synonyms = serialize_json(occupation.synonyms),
        !.embedding = serialize_embedding(occupation.embedding),
        !.updated_at = Some(adapt_datetime(now))]

\* Trigger update_occupations_timestamp, AFTER UPDATE ON occupations.
update_occupations_timestamp(row, k) ==
    [row EXCEPT !.updated_at = Some(CURRENT_TIMESTAMP(k))]

\* UPDATE occupations raises when the table is missing, or when the row
\* exists and a NOT NULL column would become NULL.
UpdateRaises(sch, occ, occupation) ==
    \/ "occupations" \notin sch
    \/ (~IsNone(occ[occupation.code]) /\ IsNone(occupation.title))

\* Rows in descending code order.
RECURSIVE order_by_code_desc(_)
order_by_code_desc(rows) ==
    IF rows = {} THEN << >>
    ELSE LET top == CHOOSE r \in rows : \A q \in rows : TextLeq(q.code, r.code)
         IN  << top >> \o order_by_code_desc(rows \ { top })

\* ORDER BY code: rows by ascending code, the smallest first.
RECURSIVE order_by_code(_)
order_by_code(rows) ==
    IF rows = {} THEN << >>
    ELSE LET first == CHOOSE r \in rows : \A q \in rows : TextLeq(r.code, q.code)
         IN  << first >> \o order_by_code(rows \ { first })

valid_levels ==
    { "division", "major_group", "sub_major_group", "minor_group", "unit_group" }

\* OccupationCRUD.get_by_hierarchy: [] when the level is not a hierarchy
\* level (ValueError, caught) or the query raises.
get_by_hierarchy(level, value) ==
    IF level \notin valid_levels \/ "occupations" \notin schema THEN << >>
    ELSE LET results ==
                order_by_code({ Get(occupations[c]) :
                    c \in { d \in Codes : /\ ~IsNone(occupations[d])
                                          /\ Get(occupations[d])[level] = value } })
         IN  [i \in 1..Len(results) |-> row_to_occupation(results[i])]

\* OccupationCRUD.update
Update(occupation) ==
    LET code == occupation.code
        embedding_bytes == serialize_embedding(occupation.embedding)
        rows_affected == IF IsNone(occupations[code]) THEN 0 ELSE 1
    IN  IF UpdateRaises(schema, occupations, occupation)
        THEN /\ last' = Called("update", Some(code), FALSE, 0)
             /\ UNCHANGED << threads, manager, connections, user_sessions, codec,
                             clock, vss, pyhash, schema, occupations,
                             occupation_vectors, occupation_vectors_fallback,
                             search_queries >>
        ELSE /\ occupations' =
                    IF rows_affected = 0 THEN occupations
                    ELSE [occupations EXCEPT ![code] =
                            Some(update_occupations_timestamp(
                                    update_row(Get(occupations[code]), occupation,
                                               DatetimeNow(clock)),
                                    clock))]
             /\ occupation_vectors' =
                    IF NonEmpty(embedding_bytes) /\ is_vss_available(schema)
                    THEN update_vector(occupation_vectors, pyhash, code,
                                       Get(occupation.embedding))
                    ELSE occupation_vectors
             /\ occupation_vectors_fallback' =
                    IF /\ NonEmpty(embedding_bytes)
                       /\ ~is_vss_available(schema)
                       /\ is_fallback_vector_available(schema)
                    THEN update_fallback_vector(occupation_vectors_fallback, code,
                                                Get(occupation.embedding))
                    ELSE occupation_vectors_fallback
             /\ last' = Called("update", Some(code), rows_affected > 0, 0)
             /\ UNCHANGED << threads, manager, connections, user_sessions, codec,
                             clock, vss, pyhash, schema, search_queries >>

\* update, statement by statement, as one of several threads runs it.  Each
\* statement is an execute_update of its own: its own connection, committed
\* when it returns.
\* First the UPDATE of the catalog row (with its trigger).
UpdateStart(t, occupation) ==
    LET code == occupation.code
        embedding_bytes == serialize_embedding(occupation.embedding)
        rows_affected == IF IsNone(occupations[code]) THEN 0 ELSE 1
        raises == UpdateRaises(schema, occupations, occupation)
    IN  /\ threads[t].pc = "idle"
        /\ occupations' =
               IF raises \/ rows_affected = 0 THEN occupations
               ELSE [occupations EXCEPT ![code] =
                       Some(update_occupations_timestamp(
                               update_row(Get(occupations[code]), occupation,
                                          DatetimeNow(clock)),
                               clock))]
        /\ IF raises \/ ~NonEmpty(embedding_bytes)
           THEN /\ threads' = threads
                /\ last' = Called("update", Some(code), ~raises /\ rows_affected > 0, 0)
           ELSE /\ threads' = [threads EXCEPT ![t] =
                       [pc |-> "mirror", arg |-> Some(occupation),
                        got |-> Some(rows_affected > 0)]]
                /\ last' = last
        /\ UNCHANGED << manager, connections, user_sessions, codec, clock, vss, pyhash,
                        schema, occupation_vectors, occupation_vectors_fallback,
                        search_queries >>

\* The call is over: the thread is idle again and the caller has the result.
Returned(t) ==
    /\ threads' = [threads EXCEPT ![t] = Idle]
    /\ last' = Called("update", Some(Get(threads[t].arg).code), Get(threads[t].got), 0)

\* Then the vector mirror: on the native table the DELETE of _update_vector,
\* on the fallback table the single UPDATE of _update_fallback_vector.
UpdateMirror(t) ==
    /\ threads[t].pc = "mirror"
    /\ LET occupation == Get(threads[t].arg)
       IN  IF is_vss_available(schema)
           THEN /\ occupation_vectors' =
                       delete_vector(occupation_vectors, pyhash, occupation.code)
                /\ threads' = [threads EXCEPT ![t].pc = "insert"]
                /\ UNCHANGED << occupation_vectors_fallback, last >>
           ELSE /\ occupation_vectors_fallback' =
                       IF is_fallback_vector_available(schema)
                       THEN update_fallback_vector(occupation_vectors_fallback,
                                                   occupation.code,
                                                   Get(occupation.embedding))
                       ELSE occupation_vectors_fallback
                /\ Returned(t)
                /\ UNCHANGED occupation_vectors
    /\ UNCHANGED << manager, connections, user_sessions, codec, clock, vss, pyhash,
                    schema, occupations, search_queries >>

\* Last the INSERT of _update_vector.
UpdateInsert(t) ==
    /\ threads[t].pc = "insert"
    /\ LET occupation == Get(threads[t].arg)
       IN  occupation_vectors' =
               insert_vector(occupation_vectors, pyhash, occupation.code,
                             Get(occupation.embedding))
    /\ Returned(t)
    /\ UNCHANGED << manager, connections, user_sessions, codec, clock, vss, pyhash,
                    schema, occupations, occupation_vectors_fallback, search_queries >>

\* What the threads pass to update: one occupation, with one embedding or
\* the other.
ThreadInputs ==
    { Occupation(CodePool[1], ProfileDev, Some(e)) : e \in { EmbeddingA, EmbeddingB } }

\* ON DELETE CASCADE of occupation_vectors_fallback.occupation_code (every
\* connection runs PRAGMA foreign_keys = ON).
cascade_delete(fb, code) == [fb EXCEPT ![code] = None]

\* OccupationCRUD.delete
Delete(code) ==
    IF "occupations" \notin schema
    THEN /\ last' = Called("delete", Some(code), FALSE, 0)
         /\ UNCHANGED << threads, manager, connections, user_sessions, codec,
                         clock, vss, pyhash, schema, occupations,
                         occupation_vectors, occupation_vectors_fallback,
                         search_queries >>
    ELSE /\ occupation_vectors' =
                IF is_vss_available(schema)
                THEN delete_vector(occupation_vectors, pyhash, code)
                ELSE occupation_vectors
         /\ occupation_vectors_fallback' =
                LET fb == IF /\ ~is_vss_available(schema)
                             /\ is_fallback_vector_available(schema)
                          THEN delete_fallback_vector(occupation_vectors_fallback, code)
                          ELSE occupation_vectors_fallback
                IN  IF IsNone(occupations[code]) THEN fb ELSE cascade_delete(fb, code)
         /\ occupations' = [occupations EXCEPT ![code] = None]
         /\ last' = Called("delete", Some(code), ~IsNone(occupations[code]), 0)
         /\ UNCHANGED << threads, manager, connections, user_sessions, codec,
                         clock, vss, pyhash, schema, search_queries >>

\* executemany of an INSERT, the rows going in one after the other; when a
\* statement raises, the table is left as onraise says (or, with no
\* onraise, as the rows before the failing one made it).
RECURSIVE executemany_insert(_, _, _, _)
executemany_insert(sch, occ, params_list, onraise) ==
    IF params_list = << >> THEN [raised |-> FALSE, table |-> occ]
    ELSE IF InsertRaises(sch, occ, Head(params_list))
         THEN [raised |-> TRUE,
               table |-> IF IsNone(onraise) THEN occ ELSE Get(onraise)]
         ELSE executemany_insert(
                 sch, [occ EXCEPT ![Head(params_list).code] = Some(Head(params_list))],
                 Tail(params_list), onraise)

\* An executemany whose rows are committed one by one: the rows before the
\* failing one stay.
execute_many_autocommit(sch, occ, params_list) ==
    executemany_insert(sch, occ, params_list, None)

\* An executemany that stops after its first row.
execute_many_first_row(sch, occ, params_list) ==
    executemany_insert(sch, occ, SubSeq(params_list, 1, IF Len(params_list) = 0 THEN 0 ELSE 1),
                       Some(occ))

\* execute_many of an INSERT over params_list: "with conn:" makes it one
\* transaction, so the first statement that raises rolls every row back.
execute_many_insert(sch, occ, params_list) ==
    executemany_insert(sch, occ, params_list, Some(occ))

\* vector_data: (code, embedding) of each occupation with an embedding.
RECURSIVE vector_data_of(_)
vector_data_of(occs) ==
    IF occs = << >> THEN << >>
    ELSE (IF IsNone(Head(occs).embedding) THEN << >>
          ELSE << << Head(occs).code, Get(Head(occs).embedding) >> >>)
         \o vector_data_of(Tail(occs))

\* _bulk_insert_vectors: one execute_many, so one transaction; a statement
\* that raises leaves the table as it was.
RECURSIVE bulk_insert_vectors_from(_, _, _, _)
bulk_insert_vectors_from(orig, vec, h, vector_data) ==
    IF vector_data = << >> THEN vec
    ELSE LET code == Head(vector_data)[1]
             embedding == Head(vector_data)[2]
         IN  IF IsNone(vec[h[code]]) /\ Len(embedding) = VectorDim
             THEN bulk_insert_vectors_from(
                     orig,
                     [vec EXCEPT ![h[code]] =
                         Some([embedding |-> embedding, code |-> code])],
                     h, Tail(vector_data))
             ELSE orig

bulk_insert_vectors(vec, h, vector_data) ==
    bulk_insert_vectors_from(vec, vec, h, vector_data)

\* _bulk_insert_fallback_vectors: INSERT OR REPLACE for each pair.
RECURSIVE bulk_insert_fallback_vectors_from(_, _, _, _)
bulk_insert_fallback_vectors_from(orig, fb, occ, vector_data) ==
    IF vector_data = << >> THEN fb
    ELSE LET code == Head(vector_data)[1]
             embedding == Head(vector_data)[2]
         IN  IF ~IsNone(occ[code])
             THEN bulk_insert_fallback_vectors_from(
                     orig, [fb EXCEPT ![code] = serialize_embedding(Some(embedding))],
                     occ, Tail(vector_data))
             ELSE orig

bulk_insert_fallback_vectors(fb, occ, vector_data) ==
    bulk_insert_fallback_vectors_from(fb, fb, occ, vector_data)

\* The lists handed to bulk_create: up to MaxBatch occupations, codes free
\* to repeat; every code with an embedding, one code also without, and one
\* occupation the table refuses.
BulkItems ==
    { Occupation(c, ProfileDev, Some(EmbeddingA)) : c \in Codes } \cup
    { Occupation(CodePool[NumCodes], ProfileOps, None),
      Occupation(CodePool[1], ProfileUntitled, None) }
BulkInputs == UNION { [1..n -> BulkItems] : n \in 0..MaxBatch }

\* OccupationCRUD.bulk_create
BulkCreate(occupation_list) ==
    LET params_list == [i \in 1..Len(occupation_list) |->
                            create_params(occupation_list[i])]
        vector_data == vector_data_of(occupation_list)
        res == execute_many_insert(schema, occupations, params_list)
    IN  IF res.raised
        THEN /\ occupations' = res.table
             /\ last' = Called("bulk_create", None, FALSE, 0)
             /\ UNCHANGED << threads, manager, connections, user_sessions, codec,
                             clock, vss, pyhash, schema, occupation_vectors,
                             occupation_vectors_fallback, search_queries >>
        ELSE /\ occupations' = res.table
             /\ occupation_vectors' =
                    IF vector_data # << >> /\ is_vss_available(schema)
                    THEN bulk_insert_vectors(occupation_vectors, pyhash, vector_data)
                    ELSE occupation_vectors
             /\ occupation_vectors_fallback' =
                    IF /\ vector_data # << >>
                       /\ ~is_vss_available(schema)
                       /\ is_fallback_vector_available(schema)
                    THEN bulk_insert_fallback_vectors(occupation_vectors_fallback,
                                                      res.table, vector_data)
                    ELSE occupation_vectors_fallback
             /\ last' = Called("bulk_create", None, TRUE, Len(occupation_list))
             /\ UNCHANGED << threads, manager, connections, user_sessions, codec,
                             clock, vss, pyhash, schema, search_queries >>

\* OccupationCRUD.count
count == IF "occupations" \notin schema THEN 0
         ELSE Cardinality({ c \in Codes : ~IsNone(occupations[c]) })

\* ------------------------------------------------------ query repository
\* The queries callers record: UserQuery(query_id, ..., language, timestamp,
\* results=[], feedback_rating); the timestamp is the caller's.
Languages == { "en", "hi" }
Timestamps == { DatetimeNow(k) : k \in 0..MaxClock }
UserQuery(q, lang, ts, rating) ==
    [query_id |-> q, original_text |-> Some("text"), processed_text |-> Some("text"),
     language |-> Some(lang), user_id |-> None, session_id |-> Some("session"),
     timestamp |-> Some(ts), results |-> PyList(<< >>),
     selected_result |-> None, feedback_rating |-> rating]
QueryInputs ==
    { UserQuery(q, lang, ts, rating) :
        q \in QueryIds, lang \in Languages, ts \in Timestamps,
        rating \in { None, Some(4), Some(0) } }
\* Ratings handed to update_feedback: none, one inside and one outside 1..5.
RatingInputs == { None, Some(5), Some(6) }

\* The parameter tuple of create_query's INSERT, by column.
create_query_params(user_query) ==
    [query_id |-> user_query.query_id,
     original_text |-> user_query.original_text,
     processed_text |-> user_query.processed_text,
     language |-> user_query.language,
     user_id |-> user_query.user_id,
     session_id |-> user_query.session_id,
     timestamp |-> adapt_param(user_query.timestamp),
     results |-> serialize_json(user_query.results),
     selected_result |-> user_query.selected_result,
     feedback_rating |-> user_query.feedback_rating]

\* A table declared without the CHECK.
RatingCheckAbsent(rating) == FALSE

\* CHECK (feedback_rating BETWEEN 1 AND 5); NULL passes.
RatingCheckFails(rating) == ~IsNone(rating) /\ ~(1 <= Get(rating) /\ Get(rating) <= 5)

\* INSERT INTO search_queries raises unless the table exists, the primary
\* key is new, the NOT NULL columns are filled and the CHECK holds.
InsertQueryRaises(sch, tbl, params) ==
    \/ "search_queries" \notin sch
    \/ ~IsNone(tbl[params.query_id])
    \/ IsNone(params.original_text) \/ IsNone(params.language)
    \/ IsNone(params.session_id)
    \/ RatingCheckFails(params.feedback_rating)

\* SearchQueryCRUD.create_query
CreateQuery(user_query) ==
    LET params == create_query_params(user_query)
    IN  /\ IF InsertQueryRaises(schema, search_queries, params)
           THEN /\ search_queries' = search_queries
                /\ last' = Called("create_query", None, FALSE, 0)
           ELSE /\ search_queries' =
                       [search_queries EXCEPT ![params.query_id] = Some(params)]
                /\ last' = Called("create_query", None, TRUE, 0)
        /\ UNCHANGED << threads, manager, connections, user_sessions, codec,
                        clock, vss, pyhash, schema, occupations, occupation_vectors,
                        occupation_vectors_fallback >>

\* A SET list that never names selected_result.
feedback_updates_rating_only(selected_result, feedback_rating) ==
    IF IsNone(feedback_rating) THEN << >> ELSE << "feedback_rating" >>

\* A SET list that names both columns whatever was supplied.
feedback_updates_always(selected_result, feedback_rating) ==
    << "selected_result", "feedback_rating" >>

\* updates: the columns update_feedback puts in its SET list, those whose
\* argument is not None.
feedback_updates(selected_result, feedback_rating) ==
    (IF IsNone(selected_result) THEN << >> ELSE << "selected_result" >>)
        \o (IF IsNone(feedback_rating) THEN << >> ELSE << "feedback_rating" >>)

\* UPDATE search_queries SET <updates> applied to a stored row.
feedback_row(row, updates, selected_result, feedback_rating) ==
    LET named == { updates[i] : i \in 1..Len(updates) }
    IN  [row EXCEPT
            !.selected_result =
                IF "selected_result" \in named THEN selected_result ELSE @,
            !.feedback_rating =
                IF "feedback_rating" \in named THEN feedback_rating ELSE @]

\* SearchQueryCRUD.update_feedback: with nothing to set it returns True
\* without a statement; else True when the UPDATE changed a row.
UpdateFeedback(query_id, selected_result, feedback_rating) ==
    LET row == search_queries[query_id]
        updates == feedback_updates(selected_result, feedback_rating)
        raises == \/ "search_queries" \notin schema
                  \/ /\ ~IsNone(row)
                     /\ RatingCheckFails(
                            feedback_row(Get(row), updates, selected_result,
                                         feedback_rating).feedback_rating)
    IN  /\ IF Len(updates) = 0
           THEN /\ search_queries' = search_queries
                /\ last' = Called("update_feedback", None, TRUE, 0)
           ELSE IF raises \/ IsNone(row)
           THEN /\ search_queries' = search_queries
                /\ last' = Called("update_feedback", None, FALSE, 0)
           ELSE /\ search_queries' =
                       [search_queries EXCEPT ![query_id] =
                           Some(feedback_row(Get(row), updates, selected_result,
                                             feedback_rating))]
                /\ last' = Called("update_feedback", None, TRUE, 0)
        /\ UNCHANGED << threads, manager, connections, user_sessions, codec,
                        clock, vss, pyhash, schema, occupations, occupation_vectors,
                        occupation_vectors_fallback >>

\* LIMIT n of a row sequence; a negative n is no limit.
sql_limit(rows, n) ==
    IF n < 0 \/ n >= Len(rows) THEN rows ELSE SubSeq(rows, 1, n)

\* _row_to_user_query: the stored results are not rebuilt.
row_to_user_query(row, now) ==
    [query_id |-> row.query_id,
     original_text |-> row.original_text,
     processed_text |-> row.processed_text,
     language |-> row.language,
     user_id |-> row.user_id,
     session_id |-> row.session_id,
     timestamp |-> IF NonEmpty(row.timestamp)
                   THEN Some(fromisoformat(Get(row.timestamp))) ELSE Some(now),
     results |-> PyList(<< >>),
     selected_result |-> row.selected_result,
     feedback_rating |-> row.feedback_rating]

\* The orders in which a set of rows can be listed.
Listings(rows) ==
    { f \in [1..Cardinality(rows) -> rows] :
        \A i, j \in 1..Cardinality(rows) : i # j => f[i] # f[j] }

\* Listings with the oldest timestamp first.
order_by_timestamp_asc(rows) ==
    { f \in Listings(rows) :
        \A i \in 1..(Cardinality(rows) - 1) :
            TextLeq(Get(f[i].timestamp), Get(f[i + 1].timestamp)) }

\* ORDER BY timestamp DESC over the stored texts: every listing SQLite may
\* produce, rows with equal timestamps in either order.
order_by_timestamp_desc(rows) ==
    { f \in Listings(rows) :
        \A i \in 1..(Cardinality(rows) - 1) :
            TextLeq(Get(f[i + 1].timestamp), Get(f[i].timestamp)) }

\* SearchQueryCRUD.get_by_session: the results the call may return.
get_by_session(session_id, limit) ==
    IF "search_queries" \notin schema THEN { << >> }
    ELSE LET selected == { Get(search_queries[q]) :
                 q \in { i \in QueryIds :
                     /\ ~IsNone(search_queries[i])
                     /\ Get(search_queries[i]).session_id = Some(session_id) } }
         IN  { [i \in 1..Len(sql_limit(f, limit)) |->
                   row_to_user_query(sql_limit(f, limit)[i], DatetimeNow(clock))] :
               f \in order_by_timestamp_desc(selected) }

\* Queries of two sessions, as test_get_by_session records them.
SessionQueryInputs ==
    { [UserQuery(q, "en", ts, None) EXCEPT !.session_id = Some(sid)] :
        q \in QueryIds, ts \in Timestamps, sid \in SessionIds }

\* get_analytics builds its statements from pieces.  A statement is a list
\* of clauses; a condition is one clause, "?" standing for the next parameter.
\* Conditions with strict comparisons (not what get_analytics writes).
strict_conditions(start_date, end_date) ==
    (IF IsNone(start_date) THEN << >> ELSE << "timestamp > ?" >>)
        \o (IF IsNone(end_date) THEN << >> ELSE << "timestamp < ?" >>)

\* conditions, as get_analytics collects them.
analytics_conditions(start_date, end_date) ==
    (IF IsNone(start_date) THEN << >> ELSE << "timestamp >= ?" >>)
        \o (IF IsNone(end_date) THEN << >> ELSE << "timestamp <= ?" >>)

\* params: the supplied bounds, as the datetime adapter writes them.
analytics_params(start_date, end_date) ==
    (IF IsNone(start_date) THEN << >> ELSE << adapt_datetime(Get(start_date)) >>)
        \o (IF IsNone(end_date) THEN << >> ELSE << adapt_datetime(Get(end_date)) >>)

\* ' AND '.join(conditions)
RECURSIVE JoinAnd(_)
JoinAnd(conds) ==
    IF Len(conds) <= 1 THEN conds
    ELSE << Head(conds), "AND" >> \o JoinAnd(Tail(conds))

\* where_clause: "WHERE c1 AND c2" when there are conditions, else "".
where_clause(conds) ==
    IF Len(conds) > 0 THEN << "WHERE" >> \o JoinAnd(conds) ELSE << >>

total_query(wc) == << "SELECT COUNT(*) FROM search_queries" >> \o wc
lang_query(wc) ==
    << "SELECT language, COUNT(*) FROM search_queries" >> \o wc
        \o << "GROUP BY language ORDER BY count DESC" >>
rating_query(wc) ==
    << "SELECT AVG(feedback_rating), COUNT(feedback_rating) FROM search_queries" >>
        \o wc \o << "AND", "feedback_rating IS NOT NULL" >>

\* SQLite's grammar for what follows "SELECT ... FROM table": nothing, or
\* WHERE and conditions joined by AND; then an optional GROUP BY.  The
\* conditions, or None for a syntax error.
RECURSIVE sql_and_list(_)
sql_and_list(toks) ==
    IF Len(toks) = 0 \/ Head(toks) \in { "AND", "WHERE" } THEN None
    ELSE IF Len(toks) = 1 THEN Some(toks)
    ELSE IF toks[2] # "AND" THEN None
    ELSE LET rest == sql_and_list(Tail(Tail(toks)))
         IN  IF IsNone(rest) THEN None ELSE Some(<< Head(toks) >> \o Get(rest))

sql_where(sql) ==
    LET tail == Tail(sql)
        body == IF Len(tail) > 0 /\ tail[Len(tail)] = "GROUP BY language ORDER BY count DESC"
                THEN SubSeq(tail, 1, Len(tail) - 1) ELSE tail
    IN  IF Len(body) = 0 THEN Some(<< >>)
        ELSE IF Head(body) # "WHERE" THEN None
        ELSE sql_and_list(Tail(body))

\* Whether a row passes the conditions; timestamps compare as the texts
\* stored, a NULL never passes a comparison.
RECURSIVE row_passes(_, _, _)
row_passes(row, conds, params) ==
    IF Len(conds) = 0 THEN TRUE
    ELSE LET c == Head(conds)
             t == row.timestamp
             p == Head(params)
         IN  IF c = "feedback_rating IS NOT NULL"
             THEN ~IsNone(row.feedback_rating) /\ row_passes(row, Tail(conds), params)
             ELSE /\ ~IsNone(t)
                  /\ IF c = "timestamp >= ?" THEN TextLeq(p, Get(t))
                     ELSE IF c = "timestamp <= ?" THEN TextLeq(Get(t), p)
                     ELSE IF c = "timestamp > ?" THEN TextLess(p, Get(t))
                     ELSE TextLess(Get(t), p)
                  /\ row_passes(row, Tail(conds), Tail(params))

\* execute_query of a SELECT over search_queries: the rows selected, or None
\* when the statement raises (no such table, syntax error).
select_queries(sql, params) ==
    LET conds == sql_where(sql)
    IN  IF "search_queries" \notin schema \/ IsNone(conds) THEN None
        ELSE Some({ Get(search_queries[q]) :
                    q \in { i \in QueryIds : /\ ~IsNone(search_queries[i])
                                             /\ row_passes(Get(search_queries[i]),
                                                           Get(conds), params) } })

\* A fraction in lowest terms, for AVG.
RECURSIVE GCD(_, _)
GCD(a, b) == IF b = 0 THEN a ELSE GCD(b, a % b)
Fraction(n, d) == [num |-> n \div GCD(n, d), den |-> d \div GCD(n, d)]
Zero == [num |-> 0, den |-> 1]

RECURSIVE sum_ratings(_)
sum_ratings(rows) ==
    IF rows = {} THEN 0
    ELSE LET r == CHOOSE x \in rows : TRUE
         IN  Get(r.feedback_rating) + sum_ratings(rows \ { r })

\* AVG(feedback_rating): NULL over no non-NULL value.
sql_avg(rows) ==
    LET rated == { r \in rows : ~IsNone(r.feedback_rating) }
    IN  IF rated = {} THEN None
        ELSE Some(Fraction(sum_ratings(rated), Cardinality(rated)))

\* SearchQueryCRUD.get_analytics: None stands for the {} it returns when a
\* statement raises.  (date_range, an echo of the arguments, is left out.)
get_analytics(start_date, end_date) ==
    LET wc == where_clause(analytics_conditions(start_date, end_date))
        params == analytics_params(start_date, end_date)
        total_result == select_queries(total_query(wc), params)
        lang_results == select_queries(lang_query(wc), params)
        rating_result == select_queries(rating_query(wc), params)
    IN  IF IsNone(total_result) \/ IsNone(lang_results) \/ IsNone(rating_result)
        THEN None
        ELSE Some(
            [total_queries |-> Cardinality(Get(total_result)),
             queries_by_language |->
                [l \in { Get(r.language) : r \in Get(lang_results) } |->
                    Cardinality({ r \in Get(lang_results) : r.language = Some(l) })],
             average_rating |->
                LET avg == sql_avg(Get(rating_result))
                IN  IF ~IsNone(avg) /\ Get(avg).num # 0 THEN Get(avg) ELSE Zero,
             rated_queries |->
                Cardinality({ r \in Get(rating_result) : ~IsNone(r.feedback_rating) })])

\* ----------------------------------------------------------- title search
\* SQLite's LIKE: "%" stands for any run of characters, "_" for any one
\* character, and ASCII letters match without regard to case.
FoldCase(ch) == IF ch = "A" THEN "a" ELSE IF ch = "B" THEN "b" ELSE ch

RECURSIVE like(_, _)
like(text, pattern) ==
    IF pattern = << >> THEN text = << >>
    ELSE IF Head(pattern) = "%"
         THEN \/ like(text, Tail(pattern))
              \/ (text # << >> /\ like(Tail(text), pattern))
         ELSE /\ text # << >>
              /\ (Head(pattern) = "_" \/ FoldCase(Head(pattern)) = FoldCase(Head(text)))
              /\ like(Tail(text), Tail(pattern))

\* column LIKE ?: NULL LIKE ? is NULL, which no WHERE or WHEN takes.
column_like(value, pattern) == ~IsNone(value) /\ like(Get(value), pattern)

\* An ORDER BY rank that puts every row in one class.
title_rank_flat(row, exact_pattern) == 1

\* CASE WHEN title LIKE ? THEN 1 ELSE 2 END
title_rank(row, exact_pattern) ==
    IF column_like(row.title, exact_pattern) THEN 1 ELSE 2

\* OFFSET k of a row sequence; a negative k skips nothing.
sql_offset(rows, k) ==
    IF k <= 0 THEN rows
    ELSE IF k >= Len(rows) THEN << >> ELSE SubSeq(rows, k + 1, Len(rows))

\* OccupationCRUD.get_all: "LIMIT limit OFFSET offset" is added to the query
\* only when limit is not None.
get_all(limit, offset) ==
    IF "occupations" \notin schema THEN << >>
    ELSE LET ordered == order_by_code({ Get(occupations[c]) :
                            c \in { d \in Codes : ~IsNone(occupations[d]) } })
             results == IF IsNone(limit) THEN ordered
                        ELSE sql_limit(sql_offset(ordered, offset), Get(limit))
         IN  [i \in 1..Len(results) |-> row_to_occupation(results[i])]

\* Page arguments handed to get_all.
PageLimits == { None } \cup { Some(n) : n \in 0..NumCodes }
PageOffsets == 0..NumCodes

\* OccupationCRUD.search_by_title
search_by_title(title_pattern, limit) ==
    IF "occupations" \notin schema THEN << >>
    ELSE LET pattern == << "%" >> \o title_pattern \o << "%" >>
             exact_pattern == title_pattern \o << "%" >>
             selected == { Get(occupations[c]) :
                 c \in { d \in Codes :
                     /\ ~IsNone(occupations[d])
                     /\ \/ column_like(Get(occupations[d]).title, pattern)
                        \/ column_like(Get(occupations[d]).description, pattern) } }
             ranked(k) == { r \in selected : title_rank(r, exact_pattern) = k }
             results == sql_limit(order_by_code(ranked(1)) \o order_by_code(ranked(2)),
                                  limit)
         IN  [i \in 1..Len(results) |-> row_to_occupation(results[i])]

\* Occupations with titles and descriptions made for searching.
TitlePool ==
    << [title |-> << "a", "b" >>, description |-> None],
       [title |-> << "c", "A", "b" >>, description |-> None],
       [title |-> << "a", "_" >>, description |-> None],
       [title |-> << "a", "b", "a", "_" >>, description |-> None],
       [title |-> << "c" >>, description |-> Some(<< "a", "b" >>)] >>
SearchInputs ==
    { Occupation(c, [ProfileOps EXCEPT !.title = Some(TitlePool[i].title),
                                       !.description = TitlePool[i].description],
                 None) : c \in Codes, i \in 1..Len(TitlePool) }
\* The patterns and limits callers search with.
TitlePatterns ==
    { << "a", "b" >>, << "A", "B" >>, << "b" >>, << "c" >>, << "a", "_" >>, << >> }
SearchLimits == { 0, 1, 2, 3 }

\* ----------------------------------------------------- session repository
\* Arguments of create_session besides the session id: user_id and
\* accessibility_settings (language_preference keeps its default).
SessionInputs ==
    { [user_id |-> u, language_preference |-> Some("en"), accessibility_settings |-> a] :
        u \in { None, Some("u1") },
        a \in { PyNone, PyDict(<< << "fonts", PyList(<< "large" >>) >> >>) } }

\* UserSessionCRUD.create_session: the INSERT leaves created_at and
\* last_activity to their DEFAULT CURRENT_TIMESTAMP.
CreateSession(session_id, input) ==
    /\ IF "user_sessions" \notin schema \/ ~IsNone(user_sessions[session_id])
       THEN /\ user_sessions' = user_sessions
            /\ last' = Called("create_session", None, FALSE, 0)
       ELSE /\ user_sessions' =
                   [user_sessions EXCEPT ![session_id] =
                       Some([session_id |-> session_id,
                             user_id |-> input.user_id,
                             language_preference |-> input.language_preference,
                             accessibility_settings |->
                                 serialize_json(PyOr(input.accessibility_settings,
                                                     PyDict(<< >>))),
                             created_at |-> Some(CURRENT_TIMESTAMP(clock)),
                             last_activity |-> Some(CURRENT_TIMESTAMP(clock))])]
            /\ last' = Called("create_session", None, TRUE, 0)
    /\ UNCHANGED << threads, manager,
                    connections, codec, clock, vss, pyhash, schema, occupations,
                    occupation_vectors, occupation_vectors_fallback, search_queries >>

\* An UPDATE that writes the row's creation time over again as well.
update_session_row_all_times(row, k) ==
    [row EXCEPT !.created_at = Some(CURRENT_TIMESTAMP(k)),
                !.last_activity = Some(CURRENT_TIMESTAMP(k))]

\* UPDATE user_sessions SET last_activity = CURRENT_TIMESTAMP, followed by
\* trigger update_session_activity, which sets the same column again.
update_session_row(row, k) ==
    [[row EXCEPT !.last_activity = Some(CURRENT_TIMESTAMP(k))]
          EXCEPT !.last_activity = Some(CURRENT_TIMESTAMP(k))]

\* UserSessionCRUD.update_activity
UpdateActivity(session_id) ==
    /\ IF "user_sessions" \notin schema \/ IsNone(user_sessions[session_id])
       THEN /\ user_sessions' = user_sessions
            /\ last' = Called("update_activity", None, FALSE, 0)
       ELSE /\ user_sessions' =
                   [user_sessions EXCEPT ![session_id] =
                       Some(update_session_row(Get(user_sessions[session_id]), clock))]
            /\ last' = Called("update_activity", None, TRUE, 0)
    /\ UNCHANGED << threads, manager,
                    connections, codec, clock, vss, pyhash, schema, occupations,
                    occupation_vectors, occupation_vectors_fallback, search_queries >>

\* ------------------------------------------------------ connection handling
\* A connection as DatabaseManager leaves it when a call returns or raises.
Connection(via, raised, open) == [via |-> via, raised |-> raised, open |-> open]

\* "with self.get_sync_connection() as conn": sqlite3.Connection.__exit__
\* commits, or rolls back when the block raised; it does not close, and the
\* methods never call conn.close().
sync_with_exit(via, raised) == Connection(via, raised, TRUE)

\* "async with aiosqlite.connect(...) as conn": the exit closes the connection.
async_with_exit(via, raised) == Connection(via, raised, FALSE)

DatabaseCall(via, raises, at_exit) ==
    /\ Len(connections) < MaxConnections
    /\ connections' = Append(connections, at_exit)
    /\ last' = Called(via, None, ~raises, 0)
    /\ UNCHANGED << threads, manager,
                    clock, vss, pyhash, schema, occupations, occupation_vectors,
                    occupation_vectors_fallback, search_queries, user_sessions,
                    codec >>

ExecuteQuery(raises) ==
    DatabaseCall("execute_query", raises, sync_with_exit("execute_query", raises))

ExecuteUpdate(raises) ==
    DatabaseCall("execute_update", raises, sync_with_exit("execute_update", raises))

ExecuteMany(raises) ==
    DatabaseCall("execute_many", raises, sync_with_exit("execute_many", raises))

ExecuteAsyncQuery(raises) ==
    DatabaseCall("execute_async_query", raises,
                 async_with_exit("execute_async_query", raises))

ExecuteAsyncUpdate(raises) ==
    DatabaseCall("execute_async_update", raises,
                 async_with_exit("execute_async_update", raises))

\* The interpreter finalises a connection object nobody refers to any more,
\* at a moment of its choosing; that closes it.
CollectGarbage ==
    \E i \in 1..Len(connections) :
        /\ connections[i].open
        /\ connections' = [connections EXCEPT ![i].open = FALSE]
        /\ UNCHANGED << threads, manager,
                        clock, vss, pyhash, schema, occupations, occupation_vectors,
                        occupation_vectors_fallback, search_queries, user_sessions,
                        codec, last >>

\* One process over one database, in a fixed environment.
Next ==
    \/ CreateTables
    \/ \E o \in OccupationInputs : Create(o)
    \/ \E o \in OccupationInputs : Update(o)
    \/ \E c \in Codes : Delete(c)
    \/ \E b \in BulkInputs : BulkCreate(b)

Spec == Init /\ [][Next]_vars

\* The same database under a changing environment: time passes, the vector
\* extension gets installed, and the process restarts.
NextEnv ==
    \/ Tick
    \/ InstallExtension
    \/ Restart
    \/ CreateTables
    \/ \E o \in EnvInputs : Create(o)
    \/ \E o \in EnvInputs : Update(o)
    \/ \E c \in Codes : Delete(c)

SpecEnv == Init /\ [][NextEnv]_vars

\* The query log: recording queries and feedback.
NextQ ==
    \/ CreateTables
    \/ \E uq \in QueryInputs : CreateQuery(uq)
    \/ \E q \in QueryIds, sel \in { None, Some(CodePool[1]) }, rating \in RatingInputs :
          UpdateFeedback(q, sel, rating)

SpecQ == Init /\ [][NextQ]_vars

\* The query log of two sessions.
NextSession ==
    \/ CreateTables
    \/ \E uq \in SessionQueryInputs : CreateQuery(uq)

SpecSession == Init /\ [][NextSession]_vars

\* Sessions being opened and touched while time passes.
NextActivity ==
    \/ Tick
    \/ CreateTables
    \/ \E sid \in SessionIds, input \in SessionInputs : CreateSession(sid, input)
    \/ \E sid \in SessionIds : UpdateActivity(sid)

SpecActivity == Init /\ [][NextActivity]_vars

\* A database that is filled and dropped.
NextDrop ==
    \/ CreateTables
    \/ \E o \in EnvInputs : Create(o)
    \/ \E sid \in SessionIds, input \in SessionInputs : CreateSession(sid, input)
    \/ \E confirm \in BOOLEAN : DropTables(confirm)

SpecDrop == Init /\ [][NextDrop]_vars

\* Threads updating an occupation that exists; it is created while no
\* update is under way.
NextThreads ==
    \/ CreateTables
    \/ \E o \in ThreadInputs : (\A t \in Threads : threads[t].pc = "idle") /\ Create(o)
    \/ \E t \in Threads, o \in ThreadInputs :
          ~IsNone(occupations[o.code]) /\ UpdateStart(t, o)
    \/ \E t \in Threads : UpdateMirror(t)
    \/ \E t \in Threads : UpdateInsert(t)

SpecThreads == Init /\ [][NextThreads]_vars

\* ---- The process-wide database manager (connection.py) ----
\* manager.current is the module global _db_manager; instances are numbered
\* in the order of their construction (built is the number so far).
\* constructed and handed collect the instances built and returned since the
\* last reset_database_manager.

\* get_database_manager, first step: the test "_db_manager is None".
GetManagerStart(t) ==
    /\ threads[t].pc = "idle"
    /\ threads' = [threads EXCEPT ![t].pc =
                      IF IsNone(manager.current) THEN "construct" ELSE "return"]
    /\ UNCHANGED << manager, connections, user_sessions, codec, clock, vss, pyhash,
                    schema, occupations, occupation_vectors,
                    occupation_vectors_fallback, search_queries, last >>

\* _db_manager = DatabaseManager(): a new instance is built and stored.
GetManagerConstruct(t) ==
    /\ threads[t].pc = "construct"
    /\ manager.built < MaxManagers
    /\ LET instance == manager.built + 1
       IN  manager' = [manager EXCEPT !.current = Some(instance),
                                      !.built = instance,
                                      !.constructed = @ \cup { instance }]
    /\ threads' = [threads EXCEPT ![t].pc = "return"]
    /\ UNCHANGED << connections, user_sessions, codec, clock, vss, pyhash,
                    schema, occupations, occupation_vectors,
                    occupation_vectors_fallback, search_queries, last >>

\* return _db_manager: the global is read again and handed to the caller.
GetManagerReturn(t) ==
    /\ threads[t].pc = "return"
    /\ manager' = [manager EXCEPT !.handed = @ \cup { manager.current }]
    /\ threads' = [threads EXCEPT ![t] = Idle]
    /\ UNCHANGED << connections, user_sessions, codec, clock, vss, pyhash,
                    schema, occupations, occupation_vectors,
                    occupation_vectors_fallback, search_queries, last >>

\* reset_database_manager: _db_manager = None.  Taken while no call of
\* get_database_manager is under way, so that every call lies in one period.
ResetManager ==
    /\ \A t \in Threads : threads[t].pc = "idle"
    /\ manager' = [manager EXCEPT !.current = None,
                                  !.constructed = {},
                                  !.handed = {}]
    /\ UNCHANGED << threads, connections, user_sessions, codec, clock, vss, pyhash,
                    schema, occupations, occupation_vectors,
                    occupation_vectors_fallback, search_queries, last >>

NextManager ==
    \/ \E t \in Threads : GetManagerStart(t)
    \/ \E t \in Threads : GetManagerConstruct(t)
    \/ \E t \in Threads : GetManagerReturn(t)
    \/ ResetManager

SpecManager == Init /\ [][NextManager]_vars

\* Calls made on the DatabaseManager itself, and the garbage collector.
NextConn ==
    \/ \E raises \in BOOLEAN : ExecuteQuery(raises)
    \/ \E raises \in BOOLEAN : ExecuteUpdate(raises)
    \/ \E raises \in BOOLEAN : ExecuteMany(raises)
    \/ \E raises \in BOOLEAN : ExecuteAsyncQuery(raises)
    \/ \E raises \in BOOLEAN : ExecuteAsyncUpdate(raises)
    \/ CollectGarbage

SpecConn == Init /\ [][NextConn]_vars

\* An embedding one float short of the configured dimension.
ShortEmbedding == [i \in 1..(VectorDim - 1) |-> Float32Pool[1]]

\* Occupations with an embedding of the configured dimension or a shorter one.
DimensionInputs ==
    { Occupation(c, ProfileDev, Some(e)) :
        c \in Codes, e \in { EmbeddingA, ShortEmbedding } }

\* The catalog fed with embeddings of either length.
NextDimension ==
    \/ CreateTables
    \/ \E o \in DimensionInputs : Create(o)
    \/ \E o \in DimensionInputs : Update(o)
    \/ \E c \in Codes : Delete(c)

SpecDimension == Init /\ [][NextDimension]_vars

\* ------------------------------------------------------------ codec calls
\* float32 bit patterns: 0.0, the smallest subnormal, 0.1, 1.0, +inf, a NaN.
CodecFloats == { 0, 1, 1036831949, 1065353216, 2139095040, 2143289344 }

SeqsUpTo(S, n) == UNION { [1..k -> S] : k \in 0..n }

\* Arguments of serialize_embedding: None or a float32 vector.
CodecVectors == { None } \cup { Some(v) : v \in SeqsUpTo(CodecFloats, MaxCodecLen) }

\* Arguments of serialize_json: None, a list of strings, or a dict from
\* language to a list of strings.
CodecLists == { PyList(l) : l \in SeqsUpTo({ "k1", "k2" }, MaxCodecLen) }
CodecDicts ==
    { PyDict(<< >>) }
    \cup { PyDict(<< << k, PyList(l) >> >>) :
             k \in Languages, l \in SeqsUpTo({ "s1" }, MaxCodecLen) }
    \cup { PyDict(<< << "en", PyList(l) >>, << "hi", PyList(m) >> >>) :
             l \in SeqsUpTo({ "s1" }, 1), m \in SeqsUpTo({ "s2", "s3" }, 1) }

\* The database before anything is stored, and a value about to be encoded.
InitCodec ==
    /\ clock = 0
    /\ vss = FALSE
    /\ pyhash = [c \in Codes |-> 0]
    /\ schema = {}
    /\ occupations = [c \in Codes |-> None]
    /\ occupation_vectors = [r \in RowIds |-> None]
    /\ occupation_vectors_fallback = [c \in Codes |-> None]
    /\ search_queries = [q \in QueryIds |-> None]
    /\ last = Called("none", None, FALSE, 0)
    /\ connections = << >>
    /\ user_sessions = [sid \in SessionIds |-> None]
    /\ threads = [t \in Threads |-> Idle]
    /\ manager = NoManager
    /\ \/ \E v \in CodecVectors :
             codec = [op |-> "embedding", value |-> v, encoded |-> None,
                      decoded |-> None]
       \/ \E d \in { PyNone } :
             codec = [op |-> "json", value |-> d, encoded |-> None,
                      decoded |-> PyNone]
       \/ \E d \in CodecLists :
             codec = [op |-> "json", value |-> d, encoded |-> None,
                      decoded |-> PyNone]
       \/ \E d \in CodecDicts :
             codec = [op |-> "json", value |-> d, encoded |-> None,
                      decoded |-> PyNone]

CodecFrame ==
    UNCHANGED << threads, manager,
                 clock, vss, pyhash, schema, occupations, occupation_vectors,
                 occupation_vectors_fallback, search_queries, last, connections,
                 user_sessions >>

SerializeEmbedding ==
    /\ codec.op = "embedding"
    /\ codec' = [codec EXCEPT !.op = "serialize_embedding",
                              !.encoded = serialize_embedding(codec.value)]
    /\ CodecFrame

DeserializeEmbedding ==
    /\ codec.op = "serialize_embedding"
    /\ codec' = [codec EXCEPT !.op = "deserialize_embedding",
                              !.decoded = deserialize_embedding(codec.encoded)]
    /\ CodecFrame

SerializeJson ==
    /\ codec.op = "json"
    /\ codec' = [codec EXCEPT !.op = "serialize_json",
                              !.encoded = serialize_json(codec.value)]
    /\ CodecFrame

DeserializeJson ==
    /\ codec.op = "serialize_json"
    /\ codec' = [codec EXCEPT !.op = "deserialize_json",
                              !.decoded = deserialize_json(codec.encoded)]
    /\ CodecFrame

NextCodec ==
    \/ SerializeEmbedding
    \/ DeserializeEmbedding
    \/ SerializeJson
    \/ DeserializeJson

SpecCodec == InitCodec /\ [][NextCodec]_vars

\* The catalog as title search sees it.
NextSearch ==
    \/ CreateTables
    \/ \E o \in SearchInputs : Create(o)
    \/ \E c \in Codes : Delete(c)

SpecSearch == Init /\ [][NextSearch]_vars

\* ------------------------------------------------- what callers observe
\* An occupation the occupations table accepts: its NOT NULL title is there
\* (code and the hierarchy fields always are).
IsValidOccupation(o) == ~IsNone(o.title)

\* The vectors the active vector store holds for a code: the native table
\* when it exists, else the fallback table, else nothing.
ActiveVectors(code) ==
    IF is_vss_available(schema)
    THEN { Get(occupation_vectors[r]).embedding :
             r \in { q \in RowIds : /\ ~IsNone(occupation_vectors[q])
                                    /\ Get(occupation_vectors[q]).code = code } }
    ELSE IF is_fallback_vector_available(schema)
         THEN { frombuffer(Get(occupation_vectors_fallback[c])) :
                  c \in { d \in { code } : ~IsNone(occupation_vectors_fallback[d]) } }
         ELSE {}

\* An occupation's code and mutable fields (title, description, hierarchy
\* fields, keywords, synonyms, embedding): all but its two timestamps.
MutableFields(o) == [o EXCEPT !.created_at = None, !.updated_at = None]

\* A batch with a row the INSERT refuses: a code already in the catalog, a
\* code repeated in the batch, or a row that is not valid.
BatchHasFailingRow(b) ==
    \/ \E i \in 1..Len(b) : ~IsNone(occupations[b[i].code])
    \/ \E i, j \in 1..Len(b) : i # j /\ b[i].code = b[j].code
    \/ \E i \in 1..Len(b) : ~IsValidOccupation(b[i])

\* ---------------------------------------------------------------- claims
\* C1: for every valid occupation o whose code is not yet in the catalog,
\* create(o) returns true and get_by_code(o.code) then returns an occupation
\* equal to o in every field, the embedding included (absent when o has none).
C1_CreateThenGet ==
    [][\A o \in OccupationInputs :
          ( /\ IsValidOccupation(o)
            /\ "occupations" \in schema
            /\ IsNone(occupations[o.code])
            /\ last'.op = "create" /\ Create(o) )
          => ( last'.ret /\ (get_by_code(o.code))' = Some(o) )]_vars

C1_Witness ==
    /\ last.op = "create" /\ last.ret
    /\ \E c \in Codes :
          /\ last.code = Some(c)
          /\ get_by_code(c) = Some(Occupation(c, ProfileDev, Some(EmbeddingB)))

\* C2: after create(o) followed by delete(o.code), get_by_code(o.code) is
\* absent and the active vector store holds no entry for o.code.
C2_DeleteAfterCreate ==
    [][\A c \in Codes :
          ( /\ last.op = "create" /\ last.ret /\ last.code = Some(c)
            /\ last'.op = "delete" /\ Delete(c) )
          => ( (get_by_code(c))' = None /\ (ActiveVectors(c))' = {} )]_vars

\* C3: after a successful update(o) with o.embedding present, the active
\* vector store holds an entry for o.code equal to o.embedding, whether or
\* not the code had a vector entry before.
C3_UpdateMirrorsVector ==
    [][\A o \in OccupationInputs :
          ( /\ ~IsNone(o.embedding)
            /\ last'.op = "update" /\ last'.ret /\ Update(o) )
          => Get(o.embedding) \in (ActiveVectors(o.code))']_vars

\* C4: after update(o) on an existing code returns true, get_by_code(o.code)
\* has every mutable field equal to o's (so an embedding added by update
\* is read back exactly).
C4_UpdateThenGet ==
    [][\A o \in OccupationInputs :
          ( /\ ~IsNone(occupations[o.code])
            /\ last'.op = "update" /\ last'.ret /\ Update(o) )
          => \E got \in { (get_by_code(o.code))' } :
                 ~IsNone(got) /\ MutableFields(Get(got)) = MutableFields(o)]_vars

C4_Witness ==
    /\ last.op = "update" /\ last.ret
    /\ ~is_vss_available(schema) /\ is_fallback_vector_available(schema)
    /\ \E c \in Codes :
          /\ last.code = Some(c)
          /\ IsNone(occupation_vectors_fallback[c])
          /\ ~IsNone(get_by_code(c))
          /\ Get(get_by_code(c)).embedding = Some(EmbeddingA)

\* The recorded queries, and those of them in a window of optional bounds
\* (chronological order of the timestamps read back).
RecordedQueries == { q \in QueryIds : ~IsNone(search_queries[q]) }
QueryTime(q) == fromisoformat(Get(Get(search_queries[q]).timestamp))
QueriesInWindow(start, end) ==
    { q \in RecordedQueries :
        /\ IsNone(start) \/ DatetimeLeq(Get(start), QueryTime(q))
        /\ IsNone(end) \/ DatetimeLeq(QueryTime(q), Get(end)) }
RatedAmong(qs) == { q \in qs : ~IsNone(Get(search_queries[q]).feedback_rating) }
RECURSIVE RatingTotal(_)
RatingTotal(qs) ==
    IF qs = {} THEN 0
    ELSE LET q == CHOOSE x \in qs : TRUE
         IN  Get(Get(search_queries[q]).feedback_rating) + RatingTotal(qs \ { q })

\* What the analytics of a set of queries should be: their number, their
\* number per language, the number rated, and the mean rating (0 if none).
IsAnalyticsOf(a, qs) ==
    /\ a.total_queries = Cardinality(qs)
    /\ DOMAIN a.queries_by_language = { Get(Get(search_queries[q]).language) : q \in qs }
    /\ \A l \in DOMAIN a.queries_by_language :
          a.queries_by_language[l] =
              Cardinality({ q \in qs : Get(search_queries[q]).language = Some(l) })
    /\ a.rated_queries = Cardinality(RatedAmong(qs))
    /\ a.average_rating.num * Cardinality(RatedAmong(qs))
          = RatingTotal(RatedAmong(qs)) * a.average_rating.den
    /\ RatedAmong(qs) = {} => a.average_rating = Zero

OptionalTimestamps == { None } \cup { Some(t) : t \in Timestamps }

\* C5: get_analytics without bounds returns the number of recorded queries,
\* their count per language, the number of rated queries and the mean of
\* their ratings.
C5_AnalyticsUnbounded ==
    ("search_queries" \in schema /\ RecordedQueries # {}) =>
        \E a \in { get_analytics(None, None) } :
            ~IsNone(a) /\ IsAnalyticsOf(Get(a), RecordedQueries)

\* C6: get_analytics with one or both bounds counts exactly the recorded
\* queries with start <= timestamp <= end, each supplied bound inclusive,
\* and gives average_rating 0 and rated_queries 0 when none of them is rated.
C6_AnalyticsWindow ==
    "search_queries" \in schema =>
        \A start \in OptionalTimestamps, end \in OptionalTimestamps :
            (~IsNone(start) \/ ~IsNone(end)) =>
                \E a \in { get_analytics(start, end) } :
                    ~IsNone(a) /\ IsAnalyticsOf(Get(a), QueriesInWindow(start, end))

C6_Witness ==
    /\ Cardinality(RecordedQueries) = 2
    /\ \E q \in RecordedQueries :
          /\ QueryTime(q) = DatetimeNow(1)
          /\ RatedAmong({ q }) = {}
          /\ RatedAmong(RecordedQueries) # {}
          /\ QueriesInWindow(Some(DatetimeNow(1)), Some(DatetimeNow(1))) = { q }
          /\ get_analytics(Some(DatetimeNow(1)), Some(DatetimeNow(1))) =
                Some([total_queries |-> 1,
                      queries_by_language |->
                          [l \in { Get(Get(search_queries[q]).language) } |-> 1],
                      average_rating |-> Zero,
                      rated_queries |-> 0])

\* C7: bulk_create of N valid occupations with pairwise distinct codes into
\* an empty catalog returns N; then count() is N and get_by_code returns
\* each of them.
C7_BulkCreateIntoEmpty ==
    [][\A b \in BulkInputs :
          ( /\ "occupations" \in schema
            /\ count = 0
            /\ ~BatchHasFailingRow(b)
            /\ last'.op = "bulk_create" /\ BulkCreate(b) )
          => ( /\ last'.n = Len(b)
               /\ count' = Len(b)
               /\ \A i \in 1..Len(b) : (get_by_code(b[i].code))' = Some(b[i]) )]_vars

C7_Witness ==
    /\ last.op = "bulk_create" /\ last.ret /\ last.n = MaxBatch
    /\ count = MaxBatch
    /\ \E c \in Codes : ~IsNone(get_by_code(c)) /\ ~IsNone(Get(get_by_code(c)).embedding)

\* C8: when a row of the batch fails to insert, bulk_create returns 0 and
\* persists no catalog row and no vector entry of the batch.
C8_BulkCreateAllOrNothing ==
    [][\A b \in BulkInputs :
          ( /\ "occupations" \in schema
            /\ last'.op = "bulk_create" /\ BatchHasFailingRow(b)
            /\ BulkCreate(b) )
          => ( /\ last'.n = 0
               /\ occupations' = occupations
               /\ occupation_vectors' = occupation_vectors
               /\ occupation_vectors_fallback' = occupation_vectors_fallback )]_vars

C8_Witness ==
    /\ last.op = "bulk_create" /\ ~last.ret
    /\ "occupations" \in schema
    /\ count = 1

\* C9: after a successful create_tables exactly one of the native and the
\* fallback vector table exists, also when an earlier run created the other.
C9_ExactlyOneVectorTable ==
    (last.op = "create_tables" /\ last.ret)
        => (("occupation_vectors" \in schema)
                # ("occupation_vectors_fallback" \in schema))

\* The levels and values callers ask get_by_hierarchy for.
HierarchyLevels == valid_levels \cup { "title", "code", "sector" }
HierarchyValues == { "1", "12", "123", "124", "1234", "1245", "12345", "12456", "9" }

\* C10: get_by_hierarchy(level, v) returns, for one of the five hierarchy
\* levels, exactly the occupations whose level field is v in ascending code
\* order, and an empty sequence for any other level.
C10_GetByHierarchy ==
    \A level \in HierarchyLevels, v \in HierarchyValues :
        LET res == get_by_hierarchy(level, v)
        IN  IF level \in { "division", "major_group", "sub_major_group",
                           "minor_group", "unit_group" }
            THEN /\ { res[i] : i \in 1..Len(res) } =
                        { Get(get_by_code(c)) :
                            c \in { d \in Codes : /\ ~IsNone(get_by_code(d))
                                                  /\ Get(get_by_code(d))[level] = v } }
                 /\ \A i, j \in 1..Len(res) :
                        i < j => TextLess(res[i].code, res[j].code)
            ELSE res = << >>

C10_Witness ==
    /\ Len(get_by_hierarchy("major_group", "12")) = 2
    /\ Len(get_by_hierarchy("unit_group", "12345")) = 1

\* A title or description containing the pattern as written, letters
\* compared without regard to case.
StartsWithText(text, p) ==
    /\ Len(p) <= Len(text)
    /\ \A i \in 1..Len(p) : FoldCase(text[i]) = FoldCase(p[i])
ContainsText(text, p) ==
    \E k \in 0..(Len(text) - Len(p)) :
        \A i \in 1..Len(p) : FoldCase(text[k + i]) = FoldCase(p[i])
TitleStarts(o, p) == StartsWithText(Get(o.title), p)
OnlyContains(o, p) ==
    /\ ~TitleStarts(o, p)
    /\ \/ ContainsText(Get(o.title), p)
       \/ (~IsNone(o.description) /\ ContainsText(Get(o.description), p))
StoredOccupations == { Get(get_by_code(c)) : c \in { d \in Codes : ~IsNone(get_by_code(d)) } }

\* The ranking of one search result: every stored occupation whose title
\* starts with the pattern comes before every returned one that only contains
\* it elsewhere, equal ranks are in ascending code order, and there are at
\* most limit rows.
IsRankedResult(res, p, limit) ==
    /\ Len(res) <= limit
    /\ \A j \in 1..Len(res) :
          OnlyContains(res[j], p) =>
              \A o \in { x \in StoredOccupations : TitleStarts(x, p) } :
                  \E i \in 1..(j - 1) : res[i] = o
    /\ \A i, j \in 1..Len(res) :
          (i < j /\ TitleStarts(res[i], p) = TitleStarts(res[j], p))
              => TextLess(res[i].code, res[j].code)

\* C11 as stated: for every pattern and limit the result of search_by_title
\* has title-prefix rows before rows that only contain the pattern, equal
\* ranks in ascending code order, and at most limit rows.
C11_SearchRanking ==
    \A p \in TitlePatterns, limit \in SearchLimits :
        IsRankedResult(search_by_title(p, limit), p, limit)

\* C11 amended: the same for patterns without the LIKE wildcards % and _.
C11_SearchRankingPlain ==
    \A p \in TitlePatterns, limit \in SearchLimits :
        ( \A i \in 1..Len(p) : p[i] \notin { "%", "_" } )
            => IsRankedResult(search_by_title(p, limit), p, limit)

C11_Witness ==
    \E res \in { search_by_title(<< "a", "b" >>, 2) } :
        /\ Len(res) = 2
        /\ TitleStarts(res[1], << "a", "b" >>)
        /\ OnlyContains(res[2], << "a", "b" >>)
        /\ TextLess(res[2].code, res[1].code)

\* C12: an update_feedback call on an existing query that succeeds leaves
\* each of feedback_rating and selected_result at the value the call
\* supplied, or as it was when the call supplied none, and changes nothing
\* else; so after a sequence of calls each field holds what the most recent
\* call supplying it gave.
C12_FeedbackLastWriteWins ==
    [][\A q \in QueryIds, sel \in { None, Some(CodePool[1]) }, rating \in RatingInputs :
          ( /\ ~IsNone(search_queries[q])
            /\ last'.op = "update_feedback" /\ last'.ret
            /\ UpdateFeedback(q, sel, rating) )
          => /\ ~IsNone(search_queries'[q])
             /\ \E old \in { Get(search_queries[q]) }, new \in { Get(search_queries'[q]) } :
                   /\ new.feedback_rating =
                          IF IsNone(rating) THEN old.feedback_rating ELSE rating
                   /\ new.selected_result =
                          IF IsNone(sel) THEN old.selected_result ELSE sel
                   /\ [new EXCEPT !.feedback_rating = None, !.selected_result = None]
                        = [old EXCEPT !.feedback_rating = None, !.selected_result = None]
             /\ \A other \in QueryIds \ { q } :
                   search_queries'[other] = search_queries[other]]_vars

C12_Witness ==
    /\ last.op = "update_feedback" /\ last.ret
    /\ \E q, r \in RecordedQueries :
          /\ Get(search_queries[q]).feedback_rating = Some(5)
          /\ IsNone(Get(search_queries[q]).selected_result)
          /\ Get(search_queries[r]).feedback_rating = Some(4)
          /\ Get(search_queries[r]).selected_result = Some(CodePool[1])

\* C13: update_feedback with neither selected_result nor feedback_rating
\* returns success and changes no persisted row, whether or not a query
\* with that id exists.
C13_EmptyFeedbackIsNoOp ==
    [][\A q \in QueryIds :
          ( last'.op = "update_feedback" /\ UpdateFeedback(q, None, None) )
          => ( last'.ret /\ search_queries' = search_queries )]_vars

C13_Witness ==
    /\ last.op = "update_feedback" /\ last.ret
    /\ "search_queries" \in schema
    /\ Cardinality(RecordedQueries) = 1
    /\ \A q \in RecordedQueries :
          /\ IsNone(Get(search_queries[q]).selected_result)
          /\ Get(search_queries[q]).feedback_rating # Some(5)

\* C14: no connection opened by a finished query, execute or execute_batch
\* call, synchronous or asynchronous, is still open, whether the statement
\* raised or not.
C14_ConnectionsReleased ==
    \A i \in 1..Len(connections) : ~connections[i].open

\* The INSERT of the vector mirror raises: the native table refuses a row id
\* that is taken and a vector of another width.
MirrorInsertRaises(o) ==
    /\ NonEmpty(create_params(o).embedding)
    /\ is_vss_available(schema)
    /\ \/ ~IsNone(occupation_vectors[pyhash[o.code]])
       \/ Len(Get(o.embedding)) # VectorDim

\* C15: a storage failure is not raised to the caller but reported by the
\* failure result; here for create: whenever a statement of create raises,
\* the catalog INSERT or the vector mirror's, create returns false.
C15_StorageFailureReturnsFalse ==
    [][\A o \in EnvInputs :
          ( /\ last'.op = "create"
            /\ \/ InsertRaises(schema, occupations, create_params(o))
               \/ MirrorInsertRaises(o)
            /\ Create(o) )
          => last'.ret = FALSE]_vars

RatingOutOfRange(rating) == ~IsNone(rating) /\ Get(rating) \notin 1..5

\* C16: every persisted query's feedback_rating is absent or an integer in
\* 1..5, and a create_query or update_feedback call with a rating outside
\* 1..5 returns false and leaves the persisted rows unchanged.
C16_RatingInRange ==
    /\ [](\A q \in RecordedQueries :
             \/ IsNone(Get(search_queries[q]).feedback_rating)
             \/ Get(Get(search_queries[q]).feedback_rating) \in 1..5)
    /\ [][\A user_query \in QueryInputs :
             ( /\ last'.op = "create_query"
               /\ RatingOutOfRange(user_query.feedback_rating)
               /\ CreateQuery(user_query) )
             => ( ~last'.ret /\ search_queries' = search_queries )]_vars
    /\ [][\A q \in QueryIds, sel \in { None, Some(CodePool[1]) }, rating \in RatingInputs :
             ( /\ last'.op = "update_feedback"
               /\ RatingOutOfRange(rating)
               /\ UpdateFeedback(q, sel, rating) )
             => ( ~last'.ret /\ search_queries' = search_queries )]_vars

\* update_feedback was refused although the table and every query id exist.
C16_Witness ==
    /\ last.op = "update_feedback" /\ ~last.ret
    /\ "search_queries" \in schema
    /\ RecordedQueries = QueryIds
    /\ \E q \in RecordedQueries : Get(search_queries[q]).feedback_rating = Some(4)

\* The places where the active vector store holds an entry written for a code:
\* row ids of the native table, or the code itself in the fallback table.
ActiveEntries(code) ==
    IF is_vss_available(schema)
    THEN { << "rowid", r >> :
             r \in { q \in RowIds : /\ ~IsNone(occupation_vectors[q])
                                    /\ Get(occupation_vectors[q]).code = code } }
    ELSE IF is_fallback_vector_available(schema)
         THEN { << "code", c >> :
                  c \in { d \in { code } : ~IsNone(occupation_vectors_fallback[d]) } }
         ELSE {}

\* C17: at any time the active vector store holds at most one entry per
\* occupation code, whatever calls were made and from however many processes.
C17_OneVectorPerCode ==
    \A code \in Codes : Cardinality(ActiveEntries(code)) <= 1

\* C18: every persisted embedding, in the catalog row and in either vector
\* table, has the configured dimension (4 bytes per float in the blobs).
C18_EmbeddingDimension ==
    /\ \A c \in Codes :
          ( ~IsNone(occupations[c]) /\ ~IsNone(Get(occupations[c]).embedding) )
          => Len(Get(Get(occupations[c]).embedding)) = 4 * VectorDim
    /\ \A r \in RowIds :
          ~IsNone(occupation_vectors[r])
          => Len(Get(occupation_vectors[r]).embedding) = VectorDim
    /\ \A c \in Codes :
          ~IsNone(occupation_vectors_fallback[c])
          => Len(Get(occupation_vectors_fallback[c])) = 4 * VectorDim

\* C19: deserialize_embedding(serialize_embedding(v)) = v for every float32
\* vector v, the encoding has 4 x len(v) bytes, None encodes and decodes to
\* None; and deserialize_json(serialize_json(d)) = d, None mapping to None.
C19_CodecRoundTrip ==
    /\ codec.op \in { "serialize_embedding", "deserialize_embedding" }
       => IF IsNone(codec.value)
          THEN IsNone(codec.encoded)
          ELSE /\ ~IsNone(codec.encoded)
               /\ Len(Get(codec.encoded)) = 4 * Len(Get(codec.value))
    /\ codec.op = "deserialize_embedding" => codec.decoded = codec.value
    /\ codec.op \in { "serialize_json", "deserialize_json" }
       => ( IsNone(codec.encoded) <=> codec.value = PyNone )
    /\ codec.op = "deserialize_json" => codec.decoded = codec.value

C19_Witness ==
    /\ codec.op = "deserialize_embedding"
    /\ ~IsNone(codec.value)
    /\ Len(Get(codec.value)) = MaxCodecLen
    /\ Get(codec.value)[1] # Get(codec.value)[2]
    /\ Len(Get(codec.encoded)) = 4 * MaxCodecLen
    /\ codec.decoded = codec.value

\* C20: after a successful update(o) of a row created no later than now, the
\* persisted code and created_at are those set at creation and the persisted
\* updated_at is strictly later than created_at.
C20_UpdatedAfterCreated ==
    [][\A o \in EnvInputs :
          ( /\ last'.op = "update" /\ last'.ret
            /\ ~IsNone(occupations[o.code])
            /\ DatetimeLeq(Get(row_to_occupation(Get(occupations[o.code])).created_at),
                           DatetimeNow(clock))
            /\ Update(o) )
          => \E old \in { row_to_occupation(Get(occupations[o.code])) },
                new \in { row_to_occupation(Get(occupations'[o.code])) } :
                /\ new.code = old.code
                /\ new.created_at = old.created_at
                /\ DatetimeLeq(Get(new.created_at), Get(new.updated_at))
                /\ new.updated_at # new.created_at]_vars

\* The catalog in ascending code order, as callers read it.
CatalogInOrder ==
    LET ordered == order_by_code({ Get(occupations[c]) :
                       c \in { d \in Codes : ~IsNone(occupations[d]) } })
    IN  [i \in 1..Len(ordered) |-> row_to_occupation(ordered[i])]

\* C21: get_all(limit, offset) returns the catalog in ascending code order
\* without its first offset rows, cut to at most limit rows; with limit absent
\* it returns every row after the first offset rows.
C21_GetAllPage ==
    \A limit \in PageLimits, offset \in PageOffsets :
        LET all == CatalogInOrder
            rest == [i \in 1..(IF offset >= Len(all) THEN 0 ELSE Len(all) - offset)
                        |-> all[i + offset]]
            n == IF IsNone(limit) \/ Get(limit) >= Len(rest)
                 THEN Len(rest) ELSE Get(limit)
        IN  get_all(limit, offset) = [i \in 1..n |-> rest[i]]

\* A query without its result list.
ScalarFields(uq) == [uq EXCEPT !.results = PyList(<< >>)]

\* C22: get_by_session(session_id, limit) returns only queries of that
\* session, newest timestamp first, no query twice and at most limit of them;
\* and a query just recorded is listed with the scalar fields passed to
\* create_query.
C22_GetBySession ==
    /\ [](\A sid \in SessionIds, limit \in 0..NumQueries :
            \A res \in get_by_session(sid, limit) :
               /\ Len(res) <= limit
               /\ \A i \in 1..Len(res) : res[i].session_id = Some(sid)
               /\ \A i, j \in 1..Len(res) :
                     i < j => /\ res[i].query_id # res[j].query_id
                              /\ DatetimeLeq(Get(res[j].timestamp),
                                             Get(res[i].timestamp)))
    /\ [][\A uq \in SessionQueryInputs :
             ( last'.op = "create_query" /\ last'.ret /\ CreateQuery(uq) )
             => \A res \in (get_by_session(Get(uq.session_id), NumQueries))' :
                   \E i \in 1..Len(res) : ScalarFields(res[i]) = ScalarFields(uq)]_vars

C22_Witness ==
    /\ last.op = "create_query" /\ last.ret
    /\ \E res \in get_by_session("s1", NumQueries) :
          /\ Len(res) = 2
          /\ res[1].timestamp = Some(DatetimeNow(2))
          /\ res[2].timestamp = Some(DatetimeNow(1))
    /\ get_by_session("s1", 1) # get_by_session("s1", NumQueries)
    /\ get_by_session("s2", NumQueries) = { << >> }

\* C23: update_activity on an existing session returns true, sets
\* last_activity to the current time, not earlier than before, and leaves the
\* session's other columns and every other session unchanged; on an unknown
\* session id it returns false and changes nothing.
C23_UpdateActivity ==
    [][\A sid \in SessionIds :
          ( last'.op = "update_activity" /\ UpdateActivity(sid) )
          => IF IsNone(user_sessions[sid])
             THEN ~last'.ret /\ user_sessions' = user_sessions
             ELSE /\ last'.ret
                  /\ ~IsNone(user_sessions'[sid])
                  /\ \E old \in { Get(user_sessions[sid]) },
                        new \in { Get(user_sessions'[sid]) } :
                        /\ new.last_activity = Some(CURRENT_TIMESTAMP(clock))
                        /\ TextLeq(Get(old.last_activity), Get(new.last_activity))
                        /\ [new EXCEPT !.last_activity = None]
                             = [old EXCEPT !.last_activity = None]
                  /\ \A other \in SessionIds \ { sid } :
                        user_sessions'[other] = user_sessions[other]]_vars

C23_Witness ==
    /\ last.op = "update_activity" /\ last.ret
    /\ \E sid \in SessionIds :
          /\ ~IsNone(user_sessions[sid])
          /\ Get(user_sessions[sid]).created_at = Some(CURRENT_TIMESTAMP(0))
          /\ Get(user_sessions[sid]).last_activity = Some(CURRENT_TIMESTAMP(MaxClock))

\* C24: drop_tables with confirm = false does nothing: every table and row
\* is as before, and the call returns false (nothing dropped).
C24_DropNeedsConfirm ==
    [][( last'.op = "drop_tables" /\ DropTables(FALSE) )
          => /\ ~last'.ret
             /\ UNCHANGED << schema, occupations, occupation_vectors,
                             occupation_vectors_fallback, search_queries,
                             user_sessions >>]_vars

C24_Witness ==
    /\ last.op = "drop_tables" /\ ~last.ret
    /\ "occupations" \in schema /\ "user_sessions" \in schema
    /\ \E c \in Codes : ~IsNone(occupations[c])
    /\ \E sid \in SessionIds : ~IsNone(user_sessions[sid])

\* C25: once concurrent update calls on a code have all returned, the
\* catalog row's embedding and the vector entry mirrored for the code are
\* equal, as after some serial order of the calls.
C25_ConcurrentUpdatesSerialized ==
    (\A t \in Threads : threads[t].pc = "idle")
    => \A c \in Codes :
          ( ~IsNone(occupations[c]) /\ NonEmpty(Get(occupations[c]).embedding) )
          => ActiveVectors(c) = { frombuffer(Get(Get(occupations[c]).embedding)) }

\* C26: every entry of the active vector store belongs to a code that has a
\* catalog row; so update(o) for a code without a row adds no entry.
C26_NoOrphanVectors ==
    \A c \in Codes : ActiveEntries(c) # {} => ~IsNone(occupations[c])

\* C27: after a successful update(o) whose embedding is absent, the active
\* vector store holds no entry for o.code.
C27_AbsentEmbeddingClearsVector ==
    [][\A o \in OccupationInputs :
          ( /\ IsNone(o.embedding)
            /\ last'.op = "update" /\ last'.ret /\ Update(o) )
          => (ActiveVectors(o.code))' = {}]_vars

\* C28: create(o) for a code that already has a catalog row returns false and
\* leaves the catalog and both vector tables as they were.
C28_DuplicateCreateRejected ==
    [][\A o \in OccupationInputs :
          ( /\ last'.op = "create"
            /\ ~IsNone(occupations[o.code])
            /\ Create(o) )
          => /\ ~last'.ret
             /\ UNCHANGED << occupations, occupation_vectors,
                             occupation_vectors_fallback >>]_vars

\* A rejected create for a code whose row and vector entry are stored.
C28_Witness ==
    /\ last.op = "create" /\ ~last.ret
    /\ \E c \in Codes : /\ last.code = Some(c)
                        /\ ~IsNone(occupations[c])
                        /\ ActiveVectors(c) # {}

\* C29: delete(code) and update(o) leave the catalog row and the vector
\* entry of every other code as they were.
C29_OtherCodesUntouched ==
    [][\A c \in Codes :
          ( \/ last'.op = "delete" /\ Delete(c)
            \/ last'.op = "update" /\ \E o \in OccupationInputs :
                                         o.code = c /\ Update(o) )
          => \A d \in Codes \ { c } :
                /\ occupations'[d] = occupations[d]
                /\ (ActiveVectors(d))' = ActiveVectors(d)]_vars

\* C30: between two resets at most one manager is constructed, and every
\* call of get_database_manager returns that one instance.
C30_OneManagerPerPeriod ==
    /\ Cardinality(manager.constructed) <= 1
    /\ Cardinality(manager.handed) <= 1

====
